---- MODULE Spec2Model ----
(***************************************************************************)
(* Event indexing and filtering of the OSINT map front ends.               *)
(*                                                                         *)
(* The repository holds three bindings of the same page script:            *)
(*   "map"   the Leaflet binding, src/app.js lines 1-272;                  *)
(*   "old"   the earlier Leaflet binding, src/unnamed/part_000 148-373;    *)
(*   "globe" the Cesium binding, src/app.js lines 277-468.                 *)
(* The state is that of one page: the module-level variables rawFeatures   *)
(* (allEntities), availableDates, allTypes and selectedTypes, the two      *)
(* range inputs, the type checkboxes, the markers shown and the two date   *)
(* labels.  There is one action per event the page can receive: the        *)
(* settling of the fetch awaited by loadData() (main()), an input event on *)
(* either slider, a change event on a type checkbox and a click on the     *)
(* reset button.                                                           *)
(***************************************************************************)
EXTENDS Integers, Sequences, FiniteSets, TLC

\* Longest feature list of a fetched document.
MaxFeatures == 3

\* getMs returns null when no timestamp can be read (src/app.js:81).
Null == -1

\* The finite timestamps of the catalogue are 1..MaxTime.
MaxTime == 3

\* A numeric event_date_ms that is not finite (JSON.parse reads 1e999 as
\* Infinity): larger than every timestamp, and no time value of a Date.
Infinity == MaxTime + 1

(***************************************************************************)
(* Features.  geo: geometry.coordinates is a pair of finite numbers (FALSE:*)
(* the feature has a null geometry).  ms: the event_date_ms property,      *)
(* k = "num" (a finite number v), "inf" (a non-finite number), "str" (a    *)
(* numeric string denoting v), "badstr" (a string that is no number) or    *)
(* "none".  date: the event_date property, k = "iso" (a string Date.parse  *)
(* reads as v), "bad" (a string it does not read) or "none".  ty: the      *)
(* event_type property, "" when missing or empty.                          *)
(***************************************************************************)
Feature(geo, msk, msv, dk, dv, ty) ==
  [geo |-> geo, ms |-> [k |-> msk, v |-> msv], date |-> [k |-> dk, v |-> dv], ty |-> ty]

Catalogue ==
  << Feature(TRUE,  "num",    1, "none", 0, "Raid"),
     Feature(TRUE,  "num",    2, "iso",  2, "Protest"),
     Feature(TRUE,  "str",    2, "none", 0, ""),
     Feature(FALSE, "num",    1, "none", 0, "Protest"),
     Feature(TRUE,  "none",   0, "iso",  MaxTime, "Raid"),
     Feature(TRUE,  "badstr", 0, "bad",  0, "Raid"),
     Feature(TRUE,  "inf",    0, "iso",  1, "Raid") >>

\* Every event_type of the catalogue and the sentinel, in localeCompare order.
TypeOrder == <<"Event", "Protest", "Raid">>

Range(s) == { s[i] : i \in DOMAIN s }

\* The feature lists of the documents: up to MaxFeatures features of the
\* catalogue, repetitions included, listed in the order of the catalogue.
FeatureLists ==
  UNION { { [i \in 1..n |-> Catalogue[ix[i]]] :
              ix \in { jx \in [1..n -> DOMAIN Catalogue] :
                         \A i \in 1..n : \A j \in 1..n : i <= j => jx[i] <= jx[j] } } :
          n \in 0..MaxFeatures }

\* What the fetch of events.geojson can yield: a response that is not ok, a
\* FeatureCollection, a single Feature at the root, or another JSON object.
Docs ==
  { [kind |-> "notok", features |-> <<>>], [kind |-> "other", features |-> <<>>] }
    \cup { [kind |-> "fc", features |-> fs] : fs \in FeatureLists }
    \cup { [kind |-> "feature", features |-> <<f>>] : f \in Range(Catalogue) }

\* Positions a slider can be asked to take: below 0, valid, above the last.
Positions == (0 - 1)..MaxFeatures

Variants == {"map", "old", "globe"}

VARIABLES
  variant,        \* the binding the page runs
  phase,          \* "pending" | "resolved" | "rejected": the promise of loadData()
  geojson,        \* const geojson: the document the fetch yielded
  rawFeatures,    \* let rawFeatures (allEntities)
  availableDates, \* let availableDates
  allTypes,       \* let allTypes (const types)
  selectedTypes,  \* let selectedTypes
  fromRangeEl,    \* #fromRange: [max, value], min is 0
  toRangeEl,      \* #toRange
  inputHandlers,  \* number of input handlers on each slider
  typesEl,        \* #types: the checkboxes, type -> checked
  resetOnclick,   \* resetBtn.onclick is set
  clusters,       \* the features (by position) with a marker (shown entity)
  fromLabelEl,    \* #fromLabel
  toLabelEl,      \* #toLabel
  lastError,      \* what the last handler threw, "none" if it returned
  alerted,        \* the catch of loadData() has alerted
  lastOp          \* the last event delivered: [op, x, ty]

vars ==
  <<variant, phase, geojson, rawFeatures, availableDates, allTypes, selectedTypes,
    fromRangeEl, toRangeEl, inputHandlers, typesEl, resetOnclick, clusters,
    fromLabelEl, toLabelEl, lastError, alerted, lastOp>>

----------------------------------------------------------------------------
(* Pure helpers *)

Min(S) == CHOOSE x \in S : \A y \in S : x <= y

\* Array.from(set).sort((a, b) => a - b)
RECURSIVE SortNumbers(_)
SortNumbers(S) ==
  IF S = {} THEN <<>> ELSE <<Min(S)>> \o SortNumbers(S \ {Min(S)})

\* Array.from(set).sort((a, b) => a.localeCompare(b))
SortTypes(S) == SelectSeq(TypeOrder, LAMBDA t : t \in S)

\* The value sanitization of an input of type range with min 0: into [0, max],
\* and min when max is below min.
Sanitize(x, max) == IF x > max THEN (IF max < 0 THEN 0 ELSE max) ELSE IF x < 0 THEN 0 ELSE x

\* 0-based i is an index of arr
Has(arr, i) == i + 1 \in DOMAIN arr

\* arr[i] ?? dflt
At(arr, i, dflt) == IF Has(arr, i) THEN arr[i + 1] ELSE dflt

\* getMs of the Leaflet binding
getMsMap(f) ==
  IF f.ms.k = "num" THEN f.ms.v
  ELSE IF f.ms.k = "inf" THEN Infinity
  ELSE IF f.ms.k = "str" THEN f.ms.v
  ELSE IF f.date.k = "iso" THEN f.date.v
  ELSE Null

\* getMs of the earlier Leaflet binding: no numeric strings
getMsOld(f) ==
  IF f.ms.k = "num" THEN f.ms.v
  ELSE IF f.ms.k = "inf" THEN Infinity
  ELSE IF f.date.k = "iso" THEN f.date.v
  ELSE Null

\* The Cesium binding reads e.properties.event_date_ms and keeps it when
\* typeof t === "number"
getMsGlobe(f) ==
  IF f.ms.k = "num" THEN f.ms.v
  ELSE IF f.ms.k = "inf" THEN Infinity
  ELSE Null

getMs(v, f) ==
  IF v = "map" THEN getMsMap(f) ELSE IF v = "old" THEN getMsOld(f) ELSE getMsGlobe(f)

\* new Date(ms).toISOString() throws a RangeError for a time value that is no date
fmtDateThrows(ms) == ms = Infinity

\* String(f.properties?.event_type || "Event")
TypeOf(f) == IF f.ty = "" THEN "Event" ELSE f.ty

\* buildMarker returns a marker (not null)
buildMarker(f) == f.geo

HtmlLabel == [kind |-> "html", ms |-> 0]
NoDates == [kind |-> "nodates", ms |-> 0]
DateLabel(ms) == [kind |-> "date", ms |-> ms]

----------------------------------------------------------------------------
(* The filter state and what it renders, as one record: sel selectedTypes, *)
(* boxes the checkboxes, from and to the sliders, cl the markers shown,    *)
(* fl and tl the labels, err what the handler threw.                       *)

Page ==
  [sel |-> selectedTypes, boxes |-> typesEl, from |-> fromRangeEl, to |-> toRangeEl,
   cl |-> clusters, fl |-> fromLabelEl, tl |-> toLabelEl, err |-> lastError]

\* The loop of applyFilters without its test of the type.
RenderedAnyType(raw, fromMs, toMs, sel) ==
  { i \in DOMAIN raw :
      /\ getMsMap(raw[i]) # Null
      /\ ~(getMsMap(raw[i]) < fromMs \/ getMsMap(raw[i]) > toMs)
      /\ buildMarker(raw[i]) }

\* The features the loop of applyFilters gives a marker (Leaflet binding).
Rendered(raw, fromMs, toMs, sel) ==
  { i \in DOMAIN raw :
      /\ getMsMap(raw[i]) # Null
      /\ ~(getMsMap(raw[i]) < fromMs \/ getMsMap(raw[i]) > toMs)
      /\ ~(sel # {} /\ TypeOf(raw[i]) \notin sel)
      /\ buildMarker(raw[i]) }

\* applyFilters() of the Leaflet binding.
applyFiltersMap(raw, dates, s) ==
  IF Len(raw) = 0 \/ Len(dates) < 1
  THEN [s EXCEPT !.cl = {}, !.fl = NoDates, !.tl = NoDates, !.err = "none"]
  ELSE LET fromMs == At(dates, s.from.value, dates[1])
           toMs == At(dates, s.to.value, dates[Len(dates)])
       IN IF fmtDateThrows(fromMs)
          THEN [s EXCEPT !.err = "RangeError"]
          ELSE IF fmtDateThrows(toMs)
          THEN [s EXCEPT !.fl = DateLabel(fromMs), !.err = "RangeError"]
          ELSE [s EXCEPT !.cl = Rendered(raw, fromMs, toMs, s.sel),
                         !.fl = DateLabel(fromMs), !.tl = DateLabel(toMs),
                         !.err = "none"]

\* The features that pass the two tests of the loop of the earlier binding.
PassOld(raw, fromMs, toMs, sel) ==
  { i \in DOMAIN raw :
      /\ getMsOld(raw[i]) # Null
      /\ ~(getMsOld(raw[i]) < fromMs \/ getMsOld(raw[i]) > toMs)
      /\ ~(sel # {} /\ TypeOf(raw[i]) \notin sel) }

\* applyFilters() of the earlier Leaflet binding: it returns at once with
\* fewer than 2 dates, reads the bounds without a fallback, and its
\* buildMarker destructures feature.geometry.coordinates, which throws a
\* TypeError on a null geometry after the markers before it were added.
applyFiltersOld(raw, dates, s) ==
  IF Len(raw) = 0 \/ Len(dates) < 2
  THEN [s EXCEPT !.err = "none"]
  ELSE IF ~Has(dates, s.from.value) \/ fmtDateThrows(At(dates, s.from.value, 0))
  THEN [s EXCEPT !.err = "RangeError"]
  ELSE IF ~Has(dates, s.to.value) \/ fmtDateThrows(At(dates, s.to.value, 0))
  THEN [s EXCEPT !.fl = DateLabel(At(dates, s.from.value, 0)), !.err = "RangeError"]
  ELSE LET fromMs == At(dates, s.from.value, 0)
           toMs == At(dates, s.to.value, 0)
           pass == PassOld(raw, fromMs, toMs, s.sel)
           bad == { i \in pass : ~raw[i].geo }
       IN [s EXCEPT !.cl = IF bad = {} THEN pass ELSE { i \in pass : i < Min(bad) },
                    !.fl = DateLabel(fromMs), !.tl = DateLabel(toMs),
                    !.err = IF bad = {} THEN "none" ELSE "TypeError"]

\* The entities the loop of the Cesium binding leaves with show = true.
Shown(raw, fromMs, toMs, sel) ==
  { i \in DOMAIN raw :
      /\ getMsGlobe(raw[i]) # Null
      /\ getMsGlobe(raw[i]) >= fromMs
      /\ getMsGlobe(raw[i]) <= toMs
      /\ (sel = {} \/ (raw[i].ty # "" /\ raw[i].ty \in sel)) }

\* applyFilters() of the Cesium binding.
applyFiltersGlobe(raw, dates, s) ==
  IF Len(dates) = 0 \/ Len(raw) = 0
  THEN [s EXCEPT !.err = "none"]
  ELSE IF ~Has(dates, s.from.value) \/ fmtDateThrows(At(dates, s.from.value, 0))
  THEN [s EXCEPT !.err = "RangeError"]
  ELSE IF ~Has(dates, s.to.value) \/ fmtDateThrows(At(dates, s.to.value, 0))
  THEN [s EXCEPT !.fl = DateLabel(At(dates, s.from.value, 0)), !.err = "RangeError"]
  ELSE LET fromMs == At(dates, s.from.value, 0)
           toMs == At(dates, s.to.value, 0)
       IN [s EXCEPT !.cl = Shown(raw, fromMs, toMs, s.sel),
                    !.fl = DateLabel(fromMs), !.tl = DateLabel(toMs),
                    !.err = "none"]

applyFilters(v, raw, dates, s) ==
  IF v = "map" THEN applyFiltersMap(raw, dates, s)
  ELSE IF v = "old" THEN applyFiltersOld(raw, dates, s)
  ELSE applyFiltersGlobe(raw, dates, s)

\* The page takes the filter state s.
Becomes(s) ==
  /\ selectedTypes' = s.sel
  /\ typesEl' = s.boxes
  /\ fromRangeEl' = s.from
  /\ toRangeEl' = s.to
  /\ clusters' = s.cl
  /\ fromLabelEl' = s.fl
  /\ toLabelEl' = s.tl
  /\ lastError' = s.err

----------------------------------------------------------------------------
(* Initial state: the script has run to the first await of loadData()      *)
(* (main()); the sliders are as the document declares them.                *)

\* An event: op "load", "low", "high", "toggle", "unknown" or "reset", x the
\* position a slider was asked to take, ty the type of the checkbox.
Event(op, x, ty) == [op |-> op, x |-> x, ty |-> ty]

InitOf(vs) ==
  /\ variant \in vs
  /\ phase = "pending"
  /\ geojson = [kind |-> "none", features |-> <<>>]
  /\ rawFeatures = <<>>
  /\ availableDates = <<>>
  /\ allTypes = <<>>
  /\ selectedTypes = {}
  /\ fromRangeEl = [max |-> MaxFeatures, value |-> 0]
  /\ toRangeEl = [max |-> MaxFeatures, value |-> MaxFeatures]
  /\ inputHandlers = 0
  /\ typesEl = << >>
  /\ resetOnclick = FALSE
  /\ clusters = {}
  /\ fromLabelEl = HtmlLabel
  /\ toLabelEl = HtmlLabel
  /\ lastError = "none"
  /\ alerted = FALSE
  /\ lastOp = Event("none", 0, "")

\* The Leaflet binding of src/app.js.
Init == InitOf({"map"})

\* The earlier Leaflet binding.
InitOld == InitOf({"old"})

\* The Cesium binding.
InitGlobe == InitOf({"globe"})

\* Any of the three bindings.
InitAll == InitOf(Variants)

----------------------------------------------------------------------------
(* loadData() (main()) from the point where the fetch settles.  Each       *)
(* operator gives what the run leaves: the features, the two indexes, the  *)
(* page, the handlers set and how the promise settles.                     *)

\* The build of datesSet without its test of typeof ms.
DatesOfWithNull(v, raw) == SortNumbers({ getMs(v, raw[i]) : i \in DOMAIN raw })

DatesOf(v, raw) == SortNumbers({ getMs(v, raw[i]) : i \in DOMAIN raw } \ {Null})

TypesOf(raw) == SortTypes({ raw[i].ty : i \in DOMAIN raw } \ {""})

\* The slider setup without its two assignments of max.
FullRangeNoMax(s, dates) ==
  [s EXCEPT !.from.value = Sanitize(0, s.from.max),
            !.to.value = Sanitize(Len(dates) - 1, s.to.max)]

\* Both sliders span the dates: min 0, max and value set as loadData does.
FullRange(s, dates) ==
  [s EXCEPT !.from = [max |-> Len(dates) - 1, value |-> 0],
            !.to = [max |-> Len(dates) - 1, value |-> Len(dates) - 1]]

Unchecked(types) == [ty \in Range(types) |-> FALSE]

\* A run that threw before it assigned anything.
Failed(s, alert) ==
  [raw |-> rawFeatures, dates |-> availableDates, types |-> allTypes,
   page |-> [s EXCEPT !.err = "Error"], handlers |-> inputHandlers,
   reset |-> resetOnclick, phase |-> "rejected", alerted |-> alert]

\* A run that got to its call of applyFilters(), which left page p.
Ran(raw, dates, types, p, handlers, reset, alert) ==
  [raw |-> raw, dates |-> dates, types |-> types, page |-> p, handlers |-> handlers,
   reset |-> IF p.err = "none" THEN reset ELSE resetOnclick,
   phase |-> IF p.err = "none" THEN "resolved" ELSE "rejected",
   alerted |-> IF p.err = "none" THEN alerted ELSE alert]

loadDataMap(doc, s) ==
  IF doc.kind = "notok" THEN Failed(s, TRUE)
  ELSE LET raw == IF doc.kind \in {"fc", "feature"} THEN doc.features ELSE <<>>
           dates == DatesOf("map", raw)
           types == TypesOf(raw)
           p0 == IF Len(dates) >= 1 THEN FullRange(s, dates)
                 ELSE [s EXCEPT !.fl = NoDates, !.tl = NoDates]
           p1 == [p0 EXCEPT !.sel = {}, !.boxes = Unchecked(types)]
       IN Ran(raw, dates, types, applyFiltersMap(raw, dates, p1),
              IF Len(dates) >= 1 THEN 1 ELSE inputHandlers, TRUE, TRUE)

loadDataOld(doc, s) ==
  IF doc.kind = "notok" THEN Failed(s, TRUE)
  ELSE LET raw == IF doc.kind = "fc" THEN doc.features ELSE <<>>
           dates == DatesOf("old", raw)
           types == TypesOf(raw)
           p0 == IF Len(dates) < 2 THEN [s EXCEPT !.fl = NoDates, !.tl = NoDates]
                 ELSE FullRange(s, dates)
           p1 == [p0 EXCEPT !.sel = {}, !.boxes = Unchecked(types)]
       IN Ran(raw, dates, types, applyFiltersOld(raw, dates, p1),
              IF Len(dates) < 2 THEN inputHandlers ELSE inputHandlers + 1, TRUE, TRUE)

\* main() of the Cesium binding: GeoJsonDataSource.load rejects when the
\* fetch fails or the document is no GeoJSON object it knows; it makes one
\* entity per feature, shown until applyFilters() hides it.
mainGlobe(doc, s) ==
  IF doc.kind \in {"notok", "other"} THEN Failed(s, alerted)
  ELSE LET raw == doc.features
           dates == DatesOf("globe", raw)
           types == TypesOf(raw)
           p0 == [s EXCEPT !.cl = DOMAIN raw, !.err = "none"]
           p1 == [FullRange(p0, dates) EXCEPT !.boxes = Unchecked(types)]
       IN IF Len(dates) < 2
          THEN Ran(raw, dates, types, p0, inputHandlers, resetOnclick, alerted)
          ELSE Ran(raw, dates, types, applyFiltersGlobe(raw, dates, p1),
                   inputHandlers + 1, resetOnclick, alerted)

loadData(v, doc, s) ==
  IF v = "map" THEN loadDataMap(doc, s)
  ELSE IF v = "old" THEN loadDataOld(doc, s)
  ELSE mainGlobe(doc, s)

LoadData ==
  /\ phase = "pending"
  /\ \E doc \in Docs :
       LET r == loadData(variant, doc, Page)
       IN /\ geojson' = doc
          /\ rawFeatures' = r.raw
          /\ availableDates' = r.dates
          /\ allTypes' = r.types
          /\ Becomes(r.page)
          /\ inputHandlers' = r.handlers
          /\ resetOnclick' = r.reset
          /\ phase' = r.phase
          /\ alerted' = r.alerted
  /\ lastOp' = Event("load", 0, "")
  /\ UNCHANGED variant

----------------------------------------------------------------------------
(* The slider handlers (the same in the three bindings). *)

\* fromOninput without its test: the slider keeps the value it was given.
fromOninputNoPull(s) == s

\* fromOninput moving the other slider instead of the one that was moved.
fromOninputRaise(s) ==
  IF s.from.value > s.to.value
  THEN [s EXCEPT !.to.value = Sanitize(s.from.value, s.to.max)]
  ELSE s

\* if (+fromRangeEl.value > +toRangeEl.value) fromRangeEl.value = toRangeEl.value
fromOninput(s) ==
  IF s.from.value > s.to.value
  THEN [s EXCEPT !.from.value = Sanitize(s.to.value, s.from.max)]
  ELSE s

\* toOninput moving the other slider instead of the one that was moved.
toOninputLower(s) ==
  IF s.to.value < s.from.value
  THEN [s EXCEPT !.from.value = Sanitize(s.to.value, s.from.max)]
  ELSE s

\* if (+toRangeEl.value < +fromRangeEl.value) toRangeEl.value = fromRangeEl.value
toOninput(s) ==
  IF s.to.value < s.from.value
  THEN [s EXCEPT !.to.value = Sanitize(s.from.value, s.to.max)]
  ELSE s

\* The low slider with its handler set at the start of the script.
setRangeLowAlways(v, raw, dates, handlers, s, x) ==
  applyFilters(v, raw, dates, fromOninput([s EXCEPT !.from.value = Sanitize(x, s.from.max)]))

\* The low slider is moved to x: the input takes the sanitized value, then
\* its handler, when it has one, runs.
setRangeLow(v, raw, dates, handlers, s, x) ==
  LET moved == [s EXCEPT !.from.value = Sanitize(x, s.from.max)]
  IN IF handlers > 0 THEN applyFilters(v, raw, dates, fromOninput(moved)) ELSE moved

setRangeHigh(v, raw, dates, handlers, s, x) ==
  LET moved == [s EXCEPT !.to.value = Sanitize(x, s.to.max)]
  IN IF handlers > 0 THEN applyFilters(v, raw, dates, toOninput(moved)) ELSE moved

SetRangeLow(x) ==
  /\ Becomes(setRangeLow(variant, rawFeatures, availableDates, inputHandlers, Page, x))
  /\ lastOp' = Event("low", x, "")
  /\ UNCHANGED <<variant, phase, geojson, rawFeatures, availableDates, allTypes,
                 inputHandlers, resetOnclick, alerted>>

SetRangeHigh(x) ==
  /\ Becomes(setRangeHigh(variant, rawFeatures, availableDates, inputHandlers, Page, x))
  /\ lastOp' = Event("high", x, "")
  /\ UNCHANGED <<variant, phase, geojson, rawFeatures, availableDates, allTypes,
                 inputHandlers, resetOnclick, alerted>>

----------------------------------------------------------------------------
(* The change handler of the checkbox of type ty (rebuildTypeUI,           *)
(* buildTypeUI): the click flips the box, the handler follows the box.     *)

\* The change handler putting both sliders back to their ends.
changeHandlerFullRange(s, ty) ==
  [s EXCEPT !.sel = IF s.boxes[ty] THEN s.sel \cup {ty} ELSE s.sel \ {ty},
            !.from.value = 0, !.to.value = s.to.max]

\* The change handler without its else branch.
changeHandlerAddOnly(s, ty) ==
  IF s.boxes[ty] THEN [s EXCEPT !.sel = s.sel \cup {ty}] ELSE s

changeHandler(s, ty) ==
  IF s.boxes[ty] THEN [s EXCEPT !.sel = s.sel \cup {ty}] ELSE [s EXCEPT !.sel = s.sel \ {ty}]

toggleCategory(v, raw, dates, s, ty) ==
  LET clicked == [s EXCEPT !.boxes[ty] = ~s.boxes[ty]]
  IN applyFilters(v, raw, dates, changeHandler(clicked, ty))

\* The change event with a listener that rebuilds availableDates from the
\* features of the selected types.
ToggleCategoryRebuilds(ty) ==
  /\ ty \in DOMAIN typesEl
  /\ Becomes(toggleCategory(variant, rawFeatures, availableDates, Page, ty))
  /\ availableDates' =
       DatesOf(variant, SelectSeq(rawFeatures, LAMBDA f : TypeOf(f) \in selectedTypes'))
  /\ lastOp' = Event("toggle", 0, ty)
  /\ UNCHANGED <<variant, phase, geojson, rawFeatures, allTypes,
                 inputHandlers, resetOnclick, alerted>>

ToggleCategory(ty) ==
  /\ ty \in DOMAIN typesEl
  /\ Becomes(toggleCategory(variant, rawFeatures, availableDates, Page, ty))
  /\ lastOp' = Event("toggle", 0, ty)
  /\ UNCHANGED <<variant, phase, geojson, rawFeatures, availableDates, allTypes,
                 inputHandlers, resetOnclick, alerted>>

\* The categories a change event can name: those of the catalogue, the
\* sentinel, and one that no feature has.
Categories == Range(TypeOrder) \cup {"Other"}

\* A change event for a type that has no checkbox: rebuildTypeUI (buildTypeUI)
\* made a checkbox and a listener for the types of allTypes only, so no
\* listener runs.
toggleUnknown(v, raw, dates, s, ty) == s

ToggleUnknown(ty) ==
  /\ ty \notin DOMAIN typesEl
  /\ Becomes(toggleUnknown(variant, rawFeatures, availableDates, Page, ty))
  /\ lastOp' = Event("unknown", 0, ty)
  /\ UNCHANGED <<variant, phase, geojson, rawFeatures, availableDates, allTypes,
                 inputHandlers, resetOnclick, alerted>>

----------------------------------------------------------------------------
(* A click on the reset button. *)

\* resetBtn.onclick without selectedTypes.clear()
resetMapKeepsTypes(raw, dates, s) ==
  LET ranged == IF Len(dates) > 0
                THEN [s EXCEPT !.from.value = Sanitize(0, s.from.max),
                               !.to.value = Sanitize(Len(dates) - 1, s.to.max)]
                ELSE s
  IN applyFiltersMap(raw, dates, ranged)

\* resetBtn.onclick of the Leaflet binding
resetMap(raw, dates, s) ==
  LET cleared == [s EXCEPT !.sel = {}, !.boxes = [ty \in DOMAIN s.boxes |-> FALSE]]
      ranged == IF Len(dates) > 0
                THEN [cleared EXCEPT !.from.value = Sanitize(0, s.from.max),
                                     !.to.value = Sanitize(Len(dates) - 1, s.to.max)]
                ELSE cleared
  IN applyFiltersMap(raw, dates, ranged)

\* resetBtn.onclick of the earlier binding: no test of availableDates.length
resetOld(raw, dates, s) ==
  applyFiltersOld(raw, dates,
    [s EXCEPT !.sel = {}, !.boxes = [ty \in DOMAIN s.boxes |-> FALSE],
              !.from.value = Sanitize(0, s.from.max),
              !.to.value = Sanitize(Len(dates) - 1, s.to.max)])

\* The click: the handler runs when the button has one (the Cesium binding
\* sets none).
reset(v, raw, dates, wired, s) ==
  IF ~wired THEN s
  ELSE IF v = "old" THEN resetOld(raw, dates, s)
  ELSE resetMap(raw, dates, s)

Reset ==
  /\ Becomes(reset(variant, rawFeatures, availableDates, resetOnclick, Page))
  /\ lastOp' = Event("reset", 0, "")
  /\ UNCHANGED <<variant, phase, geojson, rawFeatures, availableDates, allTypes,
                 inputHandlers, resetOnclick, alerted>>

----------------------------------------------------------------------------

Next ==
  \/ LoadData
  \/ \E x \in Positions : SetRangeLow(x)
  \/ \E x \in Positions : SetRangeHigh(x)
  \/ \E ty \in Range(TypeOrder) : ToggleCategory(ty)
  \/ \E ty \in Categories : ToggleUnknown(ty)
  \/ Reset

----------------------------------------------------------------------------
(* A second call of loadData().  The script calls it once; a caller that   *)
(* retries or refreshes calls it again on the page the first call left.    *)

\* Most input listeners a slider is let to collect.
MaxListeners == 2

\* Longest feature list of a document fetched again.
MaxReloadFeatures == 2

\* What the second fetch can yield: a response that is not ok, or a
\* FeatureCollection of the first features of the catalogue (none: no
\* date; one: one date; two: two dates).
ReloadDocs ==
  { [kind |-> "notok", features |-> <<>>] }
    \cup { [kind |-> "fc", features |-> SubSeq(Catalogue, 1, n)] : n \in 0..MaxReloadFeatures }

\* loadData() is called again while the sliders of the first call are wired.
Reload ==
  /\ phase # "pending"
  /\ inputHandlers > 0
  /\ inputHandlers < MaxListeners
  /\ \E doc \in ReloadDocs :
       LET r == loadData(variant, doc, Page)
       IN /\ geojson' = doc
          /\ rawFeatures' = r.raw
          /\ availableDates' = r.dates
          /\ allTypes' = r.types
          /\ Becomes(r.page)
          /\ inputHandlers' = r.handlers
          /\ resetOnclick' = r.reset
          /\ phase' = r.phase
          /\ alerted' = r.alerted
  /\ lastOp' = Event("reload", 0, "")
  /\ UNCHANGED variant

NextReload == Next \/ Reload

Spec == Init /\ [][Next]_vars

SpecOld == InitOld /\ [][Next]_vars

SpecGlobe == InitGlobe /\ [][Next]_vars

SpecAll == InitAll /\ [][Next]_vars

\* The earlier Leaflet binding with loadData() called again.
SpecOldReload == InitOld /\ [][NextReload]_vars

\* The Leaflet binding of src/app.js with loadData() called again.
SpecReload == Init /\ [][NextReload]_vars

----------------------------------------------------------------------------
(* The terms of the specification, read off the page. *)

\* An index exists: loadData() got past the build of availableDates.
Ready == phase = "resolved" \/ (phase = "rejected" /\ Len(rawFeatures) > 0)

distinctTimestamps == availableDates
rangeLowIndex == fromRangeEl.value
rangeHighIndex == toRangeEl.value
selectedCategories == selectedTypes
visibleSet == clusters
LastIndex == Len(distinctTimestamps) - 1

\* The position a range input turns a requested position into.
Clamped(x) == IF x > LastIndex THEN LastIndex ELSE IF x < 0 THEN 0 ELSE x

----------------------------------------------------------------------------
\* C1: once a dataset with at least one distinct timestamp is loaded, the
\* range positions satisfy 0 <= rangeLowIndex <= rangeHighIndex <= len - 1
\* in every state, whatever positions the sliders are asked to take and
\* whatever is toggled or reset.
C1_RangeOrdered ==
  (Ready /\ Len(distinctTimestamps) >= 1) =>
    (0 <= rangeLowIndex /\ rangeLowIndex <= rangeHighIndex /\ rangeHighIndex <= LastIndex)

\* A slider was asked for a position past the other one, in the middle of
\* three dates.
C1_Witness ==
  /\ Ready
  /\ Len(distinctTimestamps) = 3
  /\ lastOp.op = "low"
  /\ lastOp.x > rangeLowIndex
  /\ rangeLowIndex = 1
  /\ rangeHighIndex = 1

----------------------------------------------------------------------------
\* The date predicate of record i: it has a timestamp, within the bounds the
\* two positions select.
DatePredicate(i) ==
  /\ getMs(variant, rawFeatures[i]) # Null
  /\ Has(distinctTimestamps, rangeLowIndex)
  /\ Has(distinctTimestamps, rangeHighIndex)
  /\ distinctTimestamps[rangeLowIndex + 1] <= getMs(variant, rawFeatures[i])
  /\ getMs(variant, rawFeatures[i]) <= distinctTimestamps[rangeHighIndex + 1]

\* The category predicate of record i.
CategoryPredicate(i) ==
  selectedCategories = {} \/ TypeOf(rawFeatures[i]) \in selectedCategories

\* The canonical records: the features with valid coordinates.
Canonical == { i \in DOMAIN rawFeatures : rawFeatures[i].geo }

\* C2: in every ready state a canonical record is visible if and only if
\* its date predicate and its category predicate both hold.
C2_VisibleIffBoth ==
  Ready => \A i \in Canonical :
             i \in visibleSet <=> (DatePredicate(i) /\ CategoryPredicate(i))

----------------------------------------------------------------------------
\* C3 as stated: a low position above the upper bound is kept and the upper
\* bound is raised to it.
C3_WriteKept ==
  [][(lastOp'.op = "low" /\ inputHandlers > 0 /\ Clamped(lastOp'.x) > rangeHighIndex)
       => (rangeLowIndex' = Clamped(lastOp'.x) /\ rangeHighIndex' = Clamped(lastOp'.x))]_vars

\* C3 as amended: with the slider handlers installed, a low position above
\* the upper bound is pulled back to the upper bound, and the upper bound
\* stays where it was.
C3_LowPulledBack ==
  [][(lastOp'.op = "low" /\ inputHandlers > 0 /\ Clamped(lastOp'.x) > rangeHighIndex)
       => (rangeLowIndex' = rangeHighIndex /\ rangeHighIndex' = rangeHighIndex)]_vars

\* The low slider was asked for a valid position above the upper bound.
C3_Witness ==
  /\ lastOp.op = "low"
  /\ inputHandlers > 0
  /\ lastOp.x <= LastIndex
  /\ lastOp.x > rangeHighIndex
  /\ rangeLowIndex = rangeHighIndex

----------------------------------------------------------------------------
\* C4 as stated: a high position below the lower bound is kept and the lower
\* bound is lowered to it.
C4_WriteKept ==
  [][(lastOp'.op = "high" /\ inputHandlers > 0 /\ Clamped(lastOp'.x) < rangeLowIndex)
       => (rangeHighIndex' = Clamped(lastOp'.x) /\ rangeLowIndex' = Clamped(lastOp'.x))]_vars

\* C4 as amended: with the slider handlers installed, a high position below
\* the lower bound is pushed back to the lower bound, and the lower bound
\* stays where it was.
C4_HighPushedBack ==
  [][(lastOp'.op = "high" /\ inputHandlers > 0 /\ Clamped(lastOp'.x) < rangeLowIndex)
       => (rangeHighIndex' = rangeLowIndex /\ rangeLowIndex' = rangeLowIndex)]_vars

\* The high slider was asked for a valid position below the lower bound.
C4_Witness ==
  /\ lastOp.op = "high"
  /\ inputHandlers > 0
  /\ lastOp.x >= 0
  /\ lastOp.x < rangeLowIndex
  /\ rangeHighIndex = rangeLowIndex

----------------------------------------------------------------------------
\* The bounds applyFilters reads are the dates at the two positions, which
\* are positions of the index; the labels show them when it returned.
BoundsAreDates ==
  /\ Has(distinctTimestamps, rangeLowIndex)
  /\ Has(distinctTimestamps, rangeHighIndex)
  /\ lastError = "none" =>
        /\ fromLabelEl = DateLabel(distinctTimestamps[rangeLowIndex + 1])
        /\ toLabelEl = DateLabel(distinctTimestamps[rangeHighIndex + 1])

\* C5 as stated: a low position past the last one gives the last position,
\* one below 0 gives 0, and the time bounds are the dates at the positions.
C5_ClampedToLast ==
  [][(Ready' /\ Len(distinctTimestamps') >= 1) =>
       /\ BoundsAreDates'
       /\ (lastOp'.op = "low" /\ Ready /\ lastOp'.x > LastIndex) => rangeLowIndex' = LastIndex
       /\ (lastOp'.op = "low" /\ Ready /\ lastOp'.x < 0) => rangeLowIndex' = 0]_vars

\* C5 as amended: a low position past the last one gives the position of
\* the upper bound (the last position when the upper bound is there), one
\* below 0 gives 0, and the time bounds are the dates at the positions.
C5_ClampedToUpper ==
  [][(Ready' /\ Len(distinctTimestamps') >= 1) =>
       /\ BoundsAreDates'
       /\ (lastOp'.op = "low" /\ Ready /\ lastOp'.x > LastIndex) =>
             (rangeLowIndex' = rangeHighIndex /\ rangeLowIndex' <= LastIndex)
       /\ (lastOp'.op = "low" /\ Ready /\ lastOp'.x < 0) => rangeLowIndex' = 0]_vars

\* The low slider was asked for a position past the last while the upper
\* bound was below the last.
C5_Witness ==
  /\ Ready
  /\ lastOp.op = "low"
  /\ lastOp.x > LastIndex
  /\ rangeHighIndex < LastIndex
  /\ rangeLowIndex = rangeHighIndex
  /\ lastError = "none"

----------------------------------------------------------------------------
\* C6: right after a load the range is the full span, no category is
\* selected and every canonical record with a timestamp is visible.
C6_AllVisibleAfterLoad ==
  (lastOp.op = "load" /\ Ready) =>
    /\ Len(distinctTimestamps) >= 1 => (rangeLowIndex = 0 /\ rangeHighIndex = LastIndex)
    /\ selectedCategories = {}
    /\ \A i \in Canonical : getMs(variant, rawFeatures[i]) # Null => i \in visibleSet

----------------------------------------------------------------------------
\* C7: a record without a timestamp stays in the record set, is visible in
\* no ready state (whatever the range and the selection), and the index of
\* distinct timestamps holds the timestamps of the other records only.
C7_UnresolvedNeverVisible ==
  Ready =>
    /\ \A i \in DOMAIN rawFeatures :
         getMs(variant, rawFeatures[i]) = Null => i \notin visibleSet
    /\ Range(distinctTimestamps) =
         { getMs(variant, rawFeatures[i]) :
             i \in { j \in DOMAIN rawFeatures : getMs(variant, rawFeatures[j]) # Null } }
    /\ Len(distinctTimestamps) = Cardinality(Range(distinctTimestamps))

\* A record without a timestamp whose category is selected, under a range
\* narrower than the full span that shows other records.
C7_Witness ==
  /\ Ready
  /\ lastError = "none"
  /\ rangeHighIndex < LastIndex
  /\ visibleSet # {}
  /\ \E i \in DOMAIN rawFeatures :
       /\ getMs(variant, rawFeatures[i]) = Null
       /\ TypeOf(rawFeatures[i]) \in selectedCategories

----------------------------------------------------------------------------
\* C8: the reset handler leaves the full span and no category selected, and
\* a second reset right after it changes nothing (filter state, visible set).
C8_ResetRestores ==
  [][(lastOp'.op = "reset" /\ resetOnclick) =>
       /\ selectedCategories' = {}
       /\ Len(distinctTimestamps) >= 1 => (rangeLowIndex' = 0 /\ rangeHighIndex' = LastIndex)
       /\ reset(variant, rawFeatures, availableDates, resetOnclick, Page') = Page']_vars

\* The reset handler ran on three dates and shows records.
C8_Witness ==
  /\ lastOp.op = "reset"
  /\ resetOnclick
  /\ Len(distinctTimestamps) = 3
  /\ rangeLowIndex = 0
  /\ rangeHighIndex = LastIndex
  /\ visibleSet # {}

----------------------------------------------------------------------------
\* C9: a checkbox event on c adds c when absent and removes it when present,
\* changes no other category, and a second one right after it restores the
\* selection and the visible set.
C9_ToggleFlips ==
  [][lastOp'.op = "toggle" =>
       LET c == lastOp'.ty
           twice == toggleCategory(variant, rawFeatures, availableDates, Page', c)
       IN /\ c \in selectedCategories' <=> c \notin selectedCategories
          /\ selectedCategories' \ {c} = selectedCategories \ {c}
          /\ twice.sel = selectedCategories
          /\ twice.cl = visibleSet]_vars

\* A category was removed while another stays selected and records show.
C9_Witness ==
  /\ lastOp.op = "toggle"
  /\ lastOp.ty \notin selectedCategories
  /\ selectedCategories # {}
  /\ visibleSet # {}

----------------------------------------------------------------------------
----------------------------------------------------------------------------
\* C11: once a load has failed, because the fetch failed or because the
\* document is neither a FeatureCollection nor a Feature, the failure has
\* been reported and the page stays as before the load in every later
\* state: no records, no indexes, no selection, no handlers, nothing drawn.
C11_FailureLeavesUnloaded ==
  geojson.kind \in {"notok", "other"} =>
    /\ phase = "rejected"
    /\ alerted
    /\ rawFeatures = <<>> /\ availableDates = <<>> /\ allTypes = <<>>
    /\ selectedTypes = {} /\ typesEl = << >>
    /\ inputHandlers = 0 /\ ~resetOnclick
    /\ clusters = {} /\ fromLabelEl = HtmlLabel /\ toLabelEl = HtmlLabel

----------------------------------------------------------------------------
\* C12: with exactly one distinct timestamp both positions are 0 in every
\* state, and the visible records are the canonical records with a
\* timestamp whose category passes the category predicate.
C12_SingleDateIdentity ==
  (Ready /\ Len(distinctTimestamps) = 1) =>
    /\ rangeLowIndex = 0
    /\ rangeHighIndex = 0
    /\ visibleSet = { i \in Canonical :
                        getMs(variant, rawFeatures[i]) # Null /\ CategoryPredicate(i) }

----------------------------------------------------------------------------
\* C13: when a slider, checkbox or reset handler has run, the markers are
\* exactly the canonical records that pass both predicates in the filter
\* state the handler left.
C13_MarkersFollowState ==
  [][(Ready /\ ( (lastOp'.op \in {"low", "high"} /\ inputHandlers > 0)
               \/ lastOp'.op = "toggle"
               \/ (lastOp'.op = "reset" /\ resetOnclick) )) =>
       clusters' = { i \in Canonical' : DatePredicate(i)' /\ CategoryPredicate(i)' }]_vars

----------------------------------------------------------------------------
\* C14: the index of distinct timestamps is strictly increasing and its
\* elements are exactly the resolved timestamps of the records, a
\* non-finite numeric field resolving through the later sources.
C14_IndexIsResolvedTimestamps ==
  LET timestampMs(f) == IF f.ms.k \in {"num", "str"} THEN f.ms.v
                        ELSE IF f.date.k = "iso" THEN f.date.v
                        ELSE Null
  IN Ready =>
       /\ \A i \in DOMAIN distinctTimestamps : \A j \in DOMAIN distinctTimestamps :
            i < j => distinctTimestamps[i] < distinctTimestamps[j]
       /\ Range(distinctTimestamps) =
            { timestampMs(rawFeatures[i]) : i \in DOMAIN rawFeatures } \ {Null}

----------------------------------------------------------------------------
\* C15: the index of categories is sorted, without repetition, and holds
\* the category of every canonical record, the sentinel "Event" included.
C15_EveryCategoryListed ==
  Ready =>
    /\ allTypes = SortTypes(Range(allTypes))
    /\ \A i \in Canonical : TypeOf(rawFeatures[i]) \in Range(allTypes)

----------------------------------------------------------------------------
\* C16: a loaded FeatureCollection gives its features in order, a loaded
\* Feature gives that one feature, and the indexes are those of these
\* records.
C16_RecordsAreTheDocument ==
  (phase # "pending" /\ geojson.kind \in {"fc", "feature"}) =>
    /\ rawFeatures = geojson.features
    /\ availableDates = DatesOf(variant, geojson.features)
    /\ allTypes = TypesOf(geojson.features)

----------------------------------------------------------------------------
\* C17: a record without valid coordinates puts nothing in the indexes and
\* is never visible: every date and every category of the indexes is that
\* of some canonical record.
C17_IndexOfCanonicalOnly ==
  Ready =>
    /\ \A d \in Range(distinctTimestamps) :
         \E i \in Canonical : getMs(variant, rawFeatures[i]) = d
    /\ \A ty \in Range(allTypes) : \E i \in Canonical : TypeOf(rawFeatures[i]) = ty
    /\ visibleSet \subseteq Canonical

----------------------------------------------------------------------------
\* C18: the timestamp of a record is the finite number of event_date_ms,
\* else the number its numeric string denotes, else the parse of
\* event_date, else none; a timestamp is always finite.
C18_ResolutionOrder ==
  Ready => \A i \in DOMAIN rawFeatures :
    LET f == rawFeatures[i]
    IN /\ getMs(variant, f) = IF f.ms.k = "num" THEN f.ms.v
                              ELSE IF f.ms.k = "str" THEN f.ms.v
                              ELSE IF f.date.k = "iso" THEN f.date.v
                              ELSE Null
       /\ getMs(variant, f) # Null => getMs(variant, f) \in 1..MaxTime

----------------------------------------------------------------------------
\* C19: a slider, checkbox or reset event leaves the records, the index of
\* distinct timestamps and the index of categories as the load built them.
C19_IndexesFramed ==
  [][lastOp'.op \in {"low", "high", "toggle", "unknown", "reset"} =>
       UNCHANGED <<rawFeatures, availableDates, allTypes>>]_vars

\* A category was selected on three dates and hides some record.
C19_Witness ==
  /\ Ready
  /\ lastOp.op = "toggle"
  /\ Len(distinctTimestamps) = 3
  /\ selectedCategories # {}
  /\ visibleSet # {}
  /\ visibleSet # Canonical

----------------------------------------------------------------------------
\* The categories the canonical records carry.
CanonicalCategories == { TypeOf(rawFeatures[i]) : i \in Canonical }

----------------------------------------------------------------------------
\* C21: when a second load completes, the range is the full span of the new
\* dates, no category is selected, the visible set is the one a first load
\* of the same document shows (nothing of the old dataset weighs on it), and
\* a slider event runs one handler.
C21_ReplacedWholesale ==
  [][(lastOp'.op = "reload" /\ geojson'.kind = "fc") =>
       LET declared == [sel |-> {}, boxes |-> << >>,
                        from |-> [max |-> MaxFeatures, value |-> 0],
                        to |-> [max |-> MaxFeatures, value |-> MaxFeatures],
                        cl |-> {}, fl |-> HtmlLabel, tl |-> HtmlLabel, err |-> "none"]
           first == loadData(variant, geojson', declared).page
       IN /\ selectedCategories' = {}
          /\ Len(distinctTimestamps') >= 1 =>
               (rangeLowIndex' = 0 /\ rangeHighIndex' = Len(distinctTimestamps') - 1)
          /\ visibleSet' = first.cl
          /\ inputHandlers' <= 1]_vars

----------------------------------------------------------------------------
\* C22: on the same features, the same slider positions and the same
\* selection, the applyFilters of the Cesium binding shows the canonical
\* records the Leaflet binding shows (stated where the two bindings build
\* the same index of at least two dates and the Leaflet handler returned).
C22_SameVisibleSet ==
  (Ready /\ lastError = "none" /\ Len(distinctTimestamps) >= 2
     /\ DatesOf("globe", rawFeatures) = distinctTimestamps) =>
    visibleSet =
      applyFiltersGlobe(rawFeatures, distinctTimestamps,
                        [Page EXCEPT !.cl = DOMAIN rawFeatures]).cl \cap Canonical

----------------------------------------------------------------------------
\* C23: in a ready state a slider event leaves the selected categories as
\* they were, and a checkbox event leaves both range positions as they were.
C23_DimensionsIndependent ==
  [][Ready =>
       /\ lastOp'.op \in {"low", "high"} => selectedCategories' = selectedCategories
       /\ lastOp'.op \in {"toggle", "unknown"} =>
            (rangeLowIndex' = rangeLowIndex /\ rangeHighIndex' = rangeHighIndex)]_vars

\* A category was toggled under a range that starts after the first date.
C23_Witness ==
  /\ Ready
  /\ lastOp.op = "toggle"
  /\ selectedCategories # {}
  /\ rangeLowIndex > 0
  /\ visibleSet # {}

----------------------------------------------------------------------------
\* C24: a slider event that narrows the range shows no record that was not
\* shown before it, and the visible set is always within the one the same
\* range gives with no category selected.
C24_NarrowingHides ==
  [][/\ (Ready /\ inputHandlers > 0 /\ lastOp'.op \in {"low", "high"}
           /\ rangeLowIndex' >= rangeLowIndex /\ rangeHighIndex' <= rangeHighIndex) =>
          visibleSet' \subseteq visibleSet
     /\ Ready' =>
          visibleSet' \subseteq
            applyFilters(variant, rawFeatures', availableDates',
                         [Page' EXCEPT !.sel = {}]).cl]_vars

====
